---- MODULE Spec2Model ----
(***************************************************************************)
(* GrubDash: the dishes and orders controllers (Express middleware chains  *)
(* over two in-memory arrays).  One request is handled to completion       *)
(* before the next one is taken: a request action runs the whole chain of  *)
(* its route and, when the chain reaches it, the route's handler.          *)
(***************************************************************************)
EXTENDS Integers, Sequences, FiniteSets, TLC

\* Largest id the stores of the model may hold (create is not issued beyond it).
MaxId == 2

\* In how many properties a request payload may differ from the reference
\* payload of its resource.
MaxDiff == 2

VARIABLES dishes, orders, gone, last

vars == <<dishes, orders, gone, last>>

(***************************************************************************)
(* JavaScript values of a JSON payload.  A number is n + h/2 (h = 1 is a   *)
(* non-integer such as 1.5); an absent property reads as undefined.        *)
(***************************************************************************)
Undef == [t |-> "undefined", s |-> "", n |-> 0, h |-> 0, a |-> <<>>]

Null == [t |-> "null", s |-> "", n |-> 0, h |-> 0, a |-> <<>>]

Str(x) == [t |-> "string", s |-> x, n |-> 0, h |-> 0, a |-> <<>>]

Num(k) == [t |-> "number", s |-> "", n |-> k, h |-> 0, a |-> <<>>]

Half(k) == [t |-> "number", s |-> "", n |-> k, h |-> 1, a |-> <<>>]

Arr(xs) == [t |-> "array", s |-> "", n |-> 0, h |-> 0, a |-> xs]

\* One line of an order's dishes: an object whose id and quantity the code reads.
Line(id, q) == [id |-> id, quantity |-> q]

Digit == <<"0", "1", "2", "3", "4", "5", "6", "7", "8", "9">>

\* String(n) for a natural number.
RECURSIVE DecStr(_)
DecStr(k) ==
    IF k < 10 THEN Digit[k + 1]
    ELSE DecStr(k \div 10) \o Digit[(k % 10) + 1]

\* Number(s) for a string: -1 stands for NaN (a string that is no numeral).
StrNum(x) ==
    IF x = "" THEN 0
    ELSE IF \E k \in 0..99 : DecStr(k) = x
         THEN CHOOSE k \in 0..99 : DecStr(k) = x
         ELSE -1

\* if (v): JavaScript truthiness.
Truthy(v) ==
    CASE v.t = "undefined" -> FALSE
      [] v.t = "null" -> FALSE
      [] v.t = "string" -> v.s # ""
      [] v.t = "number" -> ~(v.n = 0 /\ v.h = 0)
      [] v.t = "array" -> TRUE

\* Number.isInteger(v).
IsInteger(v) == v.t = "number" /\ v.h = 0

\* v <= 0: both sides converted to numbers, false when v converts to NaN.
\* The numerals among the strings of the model are naturals.
LeZero(v) ==
    CASE v.t = "undefined" -> FALSE
      [] v.t = "null" -> TRUE
      [] v.t = "string" -> StrNum(v.s) = 0
      [] v.t = "number" -> 2 * v.n + v.h <= 0
      [] v.t = "array" -> Len(v.a) = 0

\* v < 1 for a number.
LtOne(v) == v.t = "number" /\ 2 * v.n + v.h < 2

\* `${v}` in a template literal.
TemplateStr(v) ==
    CASE v.t = "undefined" -> "undefined"
      [] v.t = "null" -> "null"
      [] v.t = "string" -> v.s
      [] v.t = "number" ->
            (IF v.n < 0 THEN "-" \o DecStr(0 - v.n) ELSE DecStr(v.n))
                \o (IF v.h = 1 THEN ".5" ELSE "")
      [] v.t = "array" -> "[object Object]"

(***************************************************************************)
(* The stores and what a request leaves behind.                            *)
(*   dishes, orders : the two arrays, in insertion order                   *)
(*   gone           : id of the order the latest destroy removed ("" when  *)
(*                    none has been removed)                               *)
(*   last           : the request being answered and its response; the     *)
(*                    handler ran `runs` times for it                      *)
(***************************************************************************)
NoData == [none |-> TRUE]

NoRequest ==
    [res |-> "none", op |-> "none", id |-> "", body |-> NoData,
     status |-> 0, message |-> "", data |-> NoData, runs |-> 0]

Ids(store) == {store[i].id : i \in 1..Len(store)}

\* array.find / findIndex by id, as a position: 0 when no element matches.
Find(store, id) ==
    IF \E i \in 1..Len(store) : store[i].id = id
    THEN CHOOSE i \in 1..Len(store) :
            /\ store[i].id = id
            /\ \A j \in 1..(i - 1) : store[j].id # id
    ELSE 0

MaxOf(S) == CHOOSE m \in S : \A k \in S : k <= m

\* nextId for a collection: one more than its highest numeric id, 1 when empty.
NextId(store) ==
    IF Len(store) = 0 THEN DecStr(1)
    ELSE DecStr(MaxOf({StrNum(id) : id \in Ids(store)}) + 1)

\* What a middleware does: next() `nexts` times, or next(error) once.
Pass == [err |-> FALSE, status |-> 0, message |-> "", nexts |-> 1]

PassTwice == [err |-> FALSE, status |-> 0, message |-> "", nexts |-> 2]

Fail(status, message) ==
    [err |-> TRUE, status |-> status, message |-> message, nexts |-> 0]

(***************************************************************************)
(* dishes.controller.js                                                    *)
(***************************************************************************)
DishBodyDataHas(propertyName, data) ==
    IF Truthy(data[propertyName]) THEN Pass
    ELSE Fail(400, "Dish must include a " \o propertyName)

\* hasPrice without its Number.isInteger part.
HasPriceNoInteger(data) ==
    IF LeZero(data.price)
    THEN Fail(400, "Dish must have a price that is an integer greater than 0")
    ELSE Pass

HasPrice(data) ==
    IF LeZero(data.price) \/ ~IsInteger(data.price)
    THEN Fail(400, "Dish must have a price that is an integer greater than 0")
    ELSE Pass

DishExists(dishId) ==
    IF Find(dishes, dishId) # 0 THEN Pass
    ELSE Fail(404, "Dish not found: " \o dishId)

\* A matching body id calls next() in the else branch and again after the if.
IdMatch(dishId, data) ==
    IF Truthy(data.id)
    THEN IF Str(dishId) # data.id
         THEN Fail(400, "Dish id does not match route id. Dish: "
                        \o TemplateStr(data.id) \o ", Route: " \o dishId)
         ELSE PassTwice
    ELSE Pass

\* res.locals.dish as dishExists leaves it.
LocalsDish(dishId) == dishes[Find(dishes, dishId)]

DishCreate(store, data) ==
    Append(store, [id |-> NextId(store), name |-> data.name,
                   description |-> data.description, price |-> data.price,
                   image_url |-> data.image_url])

\* res.locals.dish is the element of the array itself: the write is in place.
\* update writing to the first dish of the array, whatever the route id.
DishUpdateFirst(store, dishId, data) ==
    [store EXCEPT ![1] =
        [@ EXCEPT !.name = data.name, !.description = data.description,
                  !.price = data.price, !.image_url = data.image_url]]

DishUpdate(store, dishId, data) ==
    [store EXCEPT ![Find(store, dishId)] =
        [@ EXCEPT !.name = data.name, !.description = data.description,
                  !.price = data.price, !.image_url = data.image_url]]

DishesCreateChain ==
    << [fn |-> "dishBodyDataHas", arg |-> "name"],
       [fn |-> "dishBodyDataHas", arg |-> "description"],
       [fn |-> "hasPrice", arg |-> ""],
       [fn |-> "dishBodyDataHas", arg |-> "price"],
       [fn |-> "dishBodyDataHas", arg |-> "image_url"] >>

DishesReadChain == << [fn |-> "dishExists", arg |-> ""] >>

DishesUpdateChain ==
    << [fn |-> "dishExists", arg |-> ""],
       [fn |-> "dishBodyDataHas", arg |-> "name"],
       [fn |-> "dishBodyDataHas", arg |-> "description"],
       [fn |-> "hasPrice", arg |-> ""],
       [fn |-> "dishBodyDataHas", arg |-> "price"],
       [fn |-> "dishBodyDataHas", arg |-> "image_url"],
       [fn |-> "idMatch", arg |-> ""] >>

(***************************************************************************)
(* orders.controller.js                                                    *)
(***************************************************************************)
OrderBodyDataHas(propertyName, data) ==
    IF Truthy(data[propertyName]) THEN Pass
    ELSE Fail(400, "Order must include a " \o propertyName)

\* The test of a line without its Number.isInteger part.
BadQuantityNoInteger(line) ==
    \/ ~Truthy(line.quantity)
    \/ LtOne(line.quantity)

\* The test of one line in the loop of dishProperties.
\* The quantity test with a lookup of the line's id in the dish store.
BadQuantityForeignKey(line) ==
    \/ ~Truthy(line.quantity)
    \/ ~IsInteger(line.quantity)
    \/ LtOne(line.quantity)
    \/ TemplateStr(line.id) \notin Ids(dishes)

BadQuantity(line) ==
    \/ ~Truthy(line.quantity)
    \/ ~IsInteger(line.quantity)
    \/ LtOne(line.quantity)

\* An absent dishes takes the destructuring default, the empty array.
DishProperties(data) ==
    LET ds == IF data.dishes = Undef THEN Arr(<<>>) ELSE data.dishes IN
    IF ~Truthy(ds) \/ ds.t # "array" \/ Len(ds.a) = 0
    THEN Fail(400, "Order must include a dish")
    ELSE IF \E i \in 1..Len(ds.a) : BadQuantity(ds.a[i])
         THEN LET i == CHOOSE k \in 1..Len(ds.a) :
                          /\ BadQuantity(ds.a[k])
                          /\ \A j \in 1..(k - 1) : ~BadQuantity(ds.a[j])
              IN  Fail(400, "Dish " \o TemplateStr(ds.a[i].id)
                            \o " must have a quantity that is an integer greater than 0")
         ELSE Pass

OrderExists(orderId) ==
    IF Find(orders, orderId) # 0 THEN Pass
    ELSE Fail(404, "Order id not found: " \o orderId)

\* res.locals.order as orderExists leaves it.
LocalsOrder(orderId) == orders[Find(orders, orderId)]

\* Runs after orderExists, on the order found there.
OrderStatus(orderId) ==
    IF LocalsOrder(orderId).status # Str("pending")
    THEN Fail(400, "An order cannot be deleted unless it is pending.")
    ELSE Pass

MatchIds(orderId, data) ==
    IF ~Truthy(data.id) THEN Pass
    ELSE IF data.id # Str(orderId)
         THEN Fail(400, "Order id does not match route id. Order: "
                        \o TemplateStr(data.id) \o ", Route: " \o orderId \o ".")
         ELSE Pass

\* Runs after orderExists.
OrderDelivered(orderId) ==
    IF LocalsOrder(orderId).status = Str("delivered")
    THEN Fail(400, "A delivered order cannot be changed")
    ELSE Pass

\* The list of statuses without "out-for-delivery".
validStatusesShort ==
    {Str("pending"), Str("preparing"), Str("delivered")}

validStatuses ==
    {Str("pending"), Str("preparing"), Str("out-for-delivery"), Str("delivered")}

\* statusInvalid letting every status through.
StatusInvalidAny(data) == Pass

StatusInvalid(data) ==
    IF data.status \in validStatuses THEN Pass
    ELSE Fail(400, "Order status invalid")

\* create keeping the id of the body when there is one.
OrderCreateBodyId(store, data) ==
    Append(store, [id |-> IF data.id.t = "string" /\ data.id.s # ""
                          THEN data.id.s ELSE NextId(store),
                   deliverTo |-> data.deliverTo,
                   mobileNumber |-> data.mobileNumber, status |-> data.status,
                   dishes |-> data.dishes])

\* create leaving the status out of the new order.
OrderCreateNoStatus(store, data) ==
    Append(store, [id |-> NextId(store), deliverTo |-> data.deliverTo,
                   mobileNumber |-> data.mobileNumber, status |-> Undef,
                   dishes |-> data.dishes])

OrderCreate(store, data) ==
    Append(store, [id |-> NextId(store), deliverTo |-> data.deliverTo,
                   mobileNumber |-> data.mobileNumber, status |-> data.status,
                   dishes |-> data.dishes])

\* res.locals.order is the element of the array itself: the write is in place.
OrderUpdate(store, orderId, data) ==
    [store EXCEPT ![Find(store, orderId)] =
        [@ EXCEPT !.deliverTo = data.deliverTo,
                  !.mobileNumber = data.mobileNumber,
                  !.status = data.status, !.dishes = data.dishes]]

\* splice(index, 1) when findIndex finds the id.
OrderDestroy(store, orderId) ==
    LET index == Find(store, orderId) IN
    IF index > 0
    THEN [i \in 1..(Len(store) - 1) |->
             IF i < index THEN store[i] ELSE store[i + 1]]
    ELSE store

OrdersCreateChain ==
    << [fn |-> "orderBodyDataHas", arg |-> "deliverTo"],
       [fn |-> "orderBodyDataHas", arg |-> "mobileNumber"],
       [fn |-> "orderBodyDataHas", arg |-> "dishes"],
       [fn |-> "dishProperties", arg |-> ""] >>

OrdersReadChain == << [fn |-> "orderExists", arg |-> ""] >>

\* The update route without its orderDelivered step.
OrdersUpdateChainNoDelivered ==
    << [fn |-> "orderExists", arg |-> ""],
       [fn |-> "matchIds", arg |-> ""],
       [fn |-> "orderBodyDataHas", arg |-> "deliverTo"],
       [fn |-> "orderBodyDataHas", arg |-> "mobileNumber"],
       [fn |-> "orderBodyDataHas", arg |-> "dishes"],
       [fn |-> "orderBodyDataHas", arg |-> "status"],
       [fn |-> "statusInvalid", arg |-> ""],
       [fn |-> "dishProperties", arg |-> ""] >>

\* The update route with orderDelivered ahead of matchIds.
OrdersUpdateChainDeliveredFirst ==
    << [fn |-> "orderExists", arg |-> ""],
       [fn |-> "orderDelivered", arg |-> ""],
       [fn |-> "matchIds", arg |-> ""],
       [fn |-> "orderBodyDataHas", arg |-> "deliverTo"],
       [fn |-> "orderBodyDataHas", arg |-> "mobileNumber"],
       [fn |-> "orderBodyDataHas", arg |-> "dishes"],
       [fn |-> "orderBodyDataHas", arg |-> "status"],
       [fn |-> "statusInvalid", arg |-> ""],
       [fn |-> "dishProperties", arg |-> ""] >>

OrdersUpdateChain ==
    << [fn |-> "orderExists", arg |-> ""],
       [fn |-> "matchIds", arg |-> ""],
       [fn |-> "orderDelivered", arg |-> ""],
       [fn |-> "orderBodyDataHas", arg |-> "deliverTo"],
       [fn |-> "orderBodyDataHas", arg |-> "mobileNumber"],
       [fn |-> "orderBodyDataHas", arg |-> "dishes"],
       [fn |-> "orderBodyDataHas", arg |-> "status"],
       [fn |-> "statusInvalid", arg |-> ""],
       [fn |-> "dishProperties", arg |-> ""] >>

\* The destroy route without its orderStatus step.
OrdersDestroyChainNoStatus == << [fn |-> "orderExists", arg |-> ""] >>

OrdersDestroyChain ==
    << [fn |-> "orderExists", arg |-> ""],
       [fn |-> "orderStatus", arg |-> ""] >>

(***************************************************************************)
(* Running a route's array of middleware: each one either calls next(),    *)
(* which runs the rest of the array, or next(error), which ends the chain. *)
(***************************************************************************)
Middleware(step, id, data) ==
    CASE step.fn = "dishBodyDataHas" -> DishBodyDataHas(step.arg, data)
      [] step.fn = "hasPrice" -> HasPrice(data)
      [] step.fn = "dishExists" -> DishExists(id)
      [] step.fn = "idMatch" -> IdMatch(id, data)
      [] step.fn = "orderBodyDataHas" -> OrderBodyDataHas(step.arg, data)
      [] step.fn = "dishProperties" -> DishProperties(data)
      [] step.fn = "orderExists" -> OrderExists(id)
      [] step.fn = "orderStatus" -> OrderStatus(id)
      [] step.fn = "matchIds" -> MatchIds(id, data)
      [] step.fn = "orderDelivered" -> OrderDelivered(id)
      [] step.fn = "statusInvalid" -> StatusInvalid(data)

\* The outcome of the chain from step i on: status 0 when the handler is
\* reached, which then runs `runs` times; else the error of the failing step.
RECURSIVE Walk(_, _, _, _)
Walk(chain, i, id, data) ==
    IF i > Len(chain) THEN [status |-> 0, message |-> "", runs |-> 1]
    ELSE LET r == Middleware(chain[i], id, data) IN
         IF r.err THEN [status |-> r.status, message |-> r.message, runs |-> 0]
         ELSE LET rest == Walk(chain, i + 1, id, data) IN
              [rest EXCEPT !.runs = r.nexts * rest.runs]

RunChain(chain, id, data) == Walk(chain, 1, id, data)

(***************************************************************************)
(* The requests the model issues.  A payload is the `data` object of the   *)
(* body, a JSON object; a property it does not carry is Undef, and each    *)
(* line of its dishes is an object.  The payloads are those that differ    *)
(* from a valid reference payload in at most MaxDiff properties.           *)
(***************************************************************************)
RouteIds == {DecStr(k) : k \in 1..MaxId}

BodyIds == {Undef, Str("1")}

DishFields == {"id", "name", "description", "price", "image_url"}

DishRef ==
    [id |-> Undef, name |-> Str("Taco"), description |-> Str("x"),
     price |-> Num(8), image_url |-> Str("u")]

DishPayloads ==
    {p \in [id : BodyIds,
            name : {Undef, Str(""), Num(0), Str("Taco")},
            description : {Undef, Str(""), Str("x")},
            price : {Undef, Null, Str(""), Str("5"), Num(0), Num(0 - 1),
                     Half(1), Num(8)},
            image_url : {Undef, Str(""), Str("u")}] :
        Cardinality({f \in DishFields : p[f] # DishRef[f]}) <= MaxDiff}

GoodLine == Line(Str("2"), Num(1))

DishesValues ==
    {Undef, Str("soup"), Arr(<<>>), Arr(<<GoodLine>>),
     Arr(<<Line(Str("3"), Num(0))>>),
     Arr(<<GoodLine, Line(Undef, Half(1))>>),
     Arr(<<GoodLine, Line(Str("4"), Str("2"))>>),
     Arr(<<Line(Str("5"), Undef), Line(Str("6"), Num(0 - 1))>>)}

StatusValues ==
    {Undef, Str("pending"), Str("preparing"), Str("out-for-delivery"),
     Str("delivered"), Str("cooked")}

OrderFields == {"id", "deliverTo", "mobileNumber", "status", "dishes"}

OrderRef ==
    [id |-> Undef, deliverTo |-> Str("A"), mobileNumber |-> Str("M"),
     status |-> Str("pending"), dishes |-> Arr(<<GoodLine>>)]

OrderPayloads ==
    {p \in [id : BodyIds,
            deliverTo : {Undef, Str(""), Str("A")},
            mobileNumber : {Undef, Num(0), Str("M")},
            status : StatusValues,
            dishes : DishesValues] :
        Cardinality({f \in OrderFields : p[f] # OrderRef[f]}) <= MaxDiff}

Response(res, op, id, body, out, okStatus, data) ==
    [res |-> res, op |-> op, id |-> id, body |-> body,
     status |-> IF out.status = 0 THEN okStatus ELSE out.status,
     message |-> out.message,
     data |-> IF out.status = 0 THEN data ELSE NoData,
     runs |-> out.runs]

\* No request is being answered: the next one can be taken.
Idle == last = NoRequest

\* The seed data: one dish and one pending order, ids distinct per store.
SeedDish ==
    [id |-> "1", name |-> Str("Soup"), description |-> Str("s"),
     price |-> Num(3), image_url |-> Str("i")]

SeedOrder ==
    [id |-> "1", deliverTo |-> Str("Home"), mobileNumber |-> Str("555"),
     status |-> Str("pending"),
     dishes |-> Arr(<<Line(Str("1"), Num(2)), Line(Str("2"), Num(1))>>)]

Init ==
    /\ dishes = <<SeedDish>>
    /\ orders = <<SeedOrder>>
    /\ gone = ""
    /\ last = NoRequest

DishesList ==
    /\ Idle
    /\ last' = Response("dishes", "list", "", NoData,
                        RunChain(<<>>, "", NoData), 200, dishes)
    /\ UNCHANGED <<dishes, orders, gone>>

DishesCreate ==
    /\ Idle
    /\ \E data \in DishPayloads :
          LET out == RunChain(DishesCreateChain, "", data)
              new == DishCreate(dishes, data)
          IN  /\ out.status = 0 => StrNum(new[Len(new)].id) <= MaxId
              /\ dishes' = IF out.status = 0 THEN new ELSE dishes
              /\ last' = Response("dishes", "create", "", data, out, 201,
                                  new[Len(new)])
    /\ UNCHANGED <<orders, gone>>

DishesRead ==
    /\ Idle
    /\ \E dishId \in RouteIds :
          LET out == RunChain(DishesReadChain, dishId, NoData)
          IN  last' = Response("dishes", "read", dishId, NoData, out, 200,
                               IF out.status = 0
                               THEN LocalsDish(dishId) ELSE NoData)
    /\ UNCHANGED <<dishes, orders, gone>>

\* The handler runs once per next() of idMatch: twice for a matching body id.
DishesUpdate ==
    /\ Idle
    /\ \E dishId \in RouteIds, data \in DishPayloads :
          LET out == RunChain(DishesUpdateChain, dishId, data)
              once == DishUpdate(dishes, dishId, data)
              new == IF out.runs > 1 THEN DishUpdate(once, dishId, data)
                     ELSE once
          IN  /\ dishes' = IF out.status = 0 THEN new ELSE dishes
              /\ last' = Response("dishes", "update", dishId, data, out, 200,
                                  IF out.status = 0
                                  THEN new[Find(new, dishId)] ELSE NoData)
    /\ UNCHANGED <<orders, gone>>

OrdersList ==
    /\ Idle
    /\ last' = Response("orders", "list", "", NoData,
                        RunChain(<<>>, "", NoData), 200, orders)
    /\ UNCHANGED <<dishes, orders, gone>>

OrdersCreate ==
    /\ Idle
    /\ \E data \in OrderPayloads :
          LET out == RunChain(OrdersCreateChain, "", data)
              new == OrderCreate(orders, data)
          IN  /\ out.status = 0 => StrNum(new[Len(new)].id) <= MaxId
              /\ orders' = IF out.status = 0 THEN new ELSE orders
              /\ last' = Response("orders", "create", "", data, out, 201,
                                  new[Len(new)])
    /\ UNCHANGED <<dishes, gone>>

OrdersRead ==
    /\ Idle
    /\ \E orderId \in RouteIds :
          LET out == RunChain(OrdersReadChain, orderId, NoData)
          IN  last' = Response("orders", "read", orderId, NoData, out, 200,
                               IF out.status = 0
                               THEN LocalsOrder(orderId) ELSE NoData)
    /\ UNCHANGED <<dishes, orders, gone>>

\* update writing the order as soon as it is found, before the other checks.
OrdersUpdateEager ==
    /\ Idle
    /\ \E orderId \in RouteIds, data \in OrderPayloads :
          LET out == RunChain(OrdersUpdateChain, orderId, data)
              new == OrderUpdate(orders, orderId, data)
          IN  /\ orders' = IF Find(orders, orderId) # 0 THEN new ELSE orders
              /\ last' = Response("orders", "update", orderId, data, out, 200,
                                  IF out.status = 0
                                  THEN new[Find(new, orderId)] ELSE NoData)
    /\ UNCHANGED <<dishes, gone>>

OrdersUpdate ==
    /\ Idle
    /\ \E orderId \in RouteIds, data \in OrderPayloads :
          LET out == RunChain(OrdersUpdateChain, orderId, data)
              new == OrderUpdate(orders, orderId, data)
          IN  /\ orders' = IF out.status = 0 THEN new ELSE orders
              /\ last' = Response("orders", "update", orderId, data, out, 200,
                                  IF out.status = 0
                                  THEN new[Find(new, orderId)] ELSE NoData)
    /\ UNCHANGED <<dishes, gone>>

\* The delete route going straight to destroy when the id is not in the
\* store, where findIndex gives -1 and nothing is removed.
OrdersDestroyTolerant ==
    /\ Idle
    /\ \E orderId \in RouteIds :
          LET out == RunChain(IF Find(orders, orderId) = 0 THEN << >>
                              ELSE OrdersDestroyChain, orderId, NoData)
          IN  /\ orders' = IF out.status = 0
                           THEN OrderDestroy(orders, orderId) ELSE orders
              /\ gone' = IF out.status = 0 THEN orderId ELSE gone
              /\ last' = Response("orders", "destroy", orderId, NoData, out,
                                  204, NoData)
    /\ UNCHANGED dishes

OrdersDestroy ==
    /\ Idle
    /\ \E orderId \in RouteIds :
          LET out == RunChain(OrdersDestroyChain, orderId, NoData)
          IN  /\ orders' = IF out.status = 0
                           THEN OrderDestroy(orders, orderId) ELSE orders
              /\ gone' = IF out.status = 0 THEN orderId ELSE gone
              /\ last' = Response("orders", "destroy", orderId, NoData, out,
                                  204, NoData)
    /\ UNCHANGED dishes

\* The response has been sent: the request and its res.locals are gone.
EndRequest ==
    /\ ~Idle
    /\ last' = NoRequest
    /\ UNCHANGED <<dishes, orders, gone>>

NextDishes ==
    \/ DishesList
    \/ DishesCreate
    \/ DishesRead
    \/ DishesUpdate
    \/ EndRequest

NextOrders ==
    \/ OrdersList
    \/ OrdersCreate
    \/ OrdersRead
    \/ OrdersUpdate
    \/ OrdersDestroy
    \/ EndRequest

Next ==
    \/ DishesList
    \/ DishesCreate
    \/ DishesRead
    \/ DishesUpdate
    \/ OrdersList
    \/ OrdersCreate
    \/ OrdersRead
    \/ OrdersUpdate
    \/ OrdersDestroy
    \/ EndRequest

\* Requests to both resources, in any order.
Spec == Init /\ [][Next]_vars

\* Requests to /dishes only.
SpecDishes == Init /\ [][NextDishes]_vars

\* Requests to /orders only.
SpecOrders == Init /\ [][NextOrders]_vars

(***************************************************************************)
(* Properties                                                              *)
(***************************************************************************)
Delivered == Str("delivered")

Answered(res, op) == last.res = res /\ last.op = op

\* C1: an update addressed to an order of the store whose status is
\* 'delivered' ends with status 400 and leaves the order store as it was,
\* whatever the payload.
C1_DeliveredUpdateFails ==
    [][\A i \in 1..Len(orders) :
          (/\ orders[i].status = Delivered
           /\ last'.res = "orders" /\ last'.op = "update"
           /\ last'.id = orders[i].id)
          => (last'.status = 400 /\ orders' = orders)]_vars

\* A valid payload with no body id was refused because the order is delivered.
C1_Witness ==
    /\ Answered("orders", "update")
    /\ last.body = [OrderRef EXCEPT !.status = Str("preparing")]
    /\ Find(orders, last.id) # 0
    /\ LocalsOrder(last.id).status = Delivered
    /\ last.status = 400
    /\ last.message = "A delivered order cannot be changed"

\* C2: an order of the store whose status is 'delivered' is, after any
\* request, still in the store with the same id, deliverTo, mobileNumber,
\* status and dishes.
C2_DeliveredIsTerminal ==
    [][\A i \in 1..Len(orders) :
          orders[i].status = Delivered
          => \E j \in 1..Len(orders') : orders'[j] = orders[i]]_vars

\* A delete of a delivered order was refused and the order is still there.
C2_Witness ==
    /\ Answered("orders", "destroy")
    /\ last.status = 400
    /\ Find(orders, last.id) # 0
    /\ LocalsOrder(last.id).status = Delivered

Pending == Str("pending")

\* GET of an id, on the current stores: the outcome of the read route.
ReadDish(dishId) == RunChain(DishesReadChain, dishId, NoData)

ReadOrder(orderId) == RunChain(OrdersReadChain, orderId, NoData)

\* C3: a delete of an order whose status is not 'pending' ends with 400 and
\* leaves the order store as it was; a delete of a 'pending' order removes
\* it, and from then on every read of that id ends with 404.
C3_DeleteOnlyPending ==
    [][/\ \A i \in 1..Len(orders) :
            (/\ last'.res = "orders" /\ last'.op = "destroy"
             /\ last'.id = orders[i].id)
            => IF orders[i].status # Pending
               THEN last'.status = 400 /\ orders' = orders
               ELSE last'.status = 204 /\ orders[i].id \notin Ids(orders')
       /\ (gone # "" => ReadOrder(gone).status = 404)']_vars

UniqueIds(store) ==
    \A i, j \in 1..Len(store) : i # j => store[i].id # store[j].id

\* C4: no two dishes have the same id and no two orders have the same id.
C4_UniqueIds == UniqueIds(dishes) /\ UniqueIds(orders)

\* An order was created into a store that held one already, the dish store
\* holding two dishes.
C4_Witness ==
    /\ Answered("orders", "create")
    /\ last.status = 201
    /\ Len(orders) >= 2
    /\ Len(dishes) >= 2

\* C5: the id a create returns is numerically greater than every id assigned
\* before in that collection, the ids of deleted orders included.
C5_IdsNeverReused ==
    [][(last'.op = "create" /\ last'.status = 201)
       => LET prior == IF last'.res = "orders"
                       THEN Ids(orders) \cup ({gone} \ {""})
                       ELSE Ids(dishes)
          IN  \A id \in prior : StrNum(last'.data.id) > StrNum(id)]_vars

\* A dishes value the specification calls invalid: missing, not a sequence,
\* empty, or with a line whose quantity is not an integer >= 1.
BadDishes(v) ==
    \/ v.t # "array"
    \/ Len(v.a) = 0
    \/ \E i \in 1..Len(v.a) :
          LET q == v.a[i].quantity
          IN  ~(q.t = "number" /\ q.h = 0 /\ q.n >= 1)

DishesOk(store) == \A i \in 1..Len(store) : ~BadDishes(store[i].dishes)

IsOrderWrite(r) == r.res = "orders" /\ r.op \in {"create", "update"}

\* C6 as stated: every order of the store has a non-empty dishes whose
\* quantities are integers >= 1, and every order create or update with a bad
\* dishes ends with 400 and leaves the order store as it was.
C6_BadDishesAlways400 ==
    /\ DishesOk(orders)
    /\ [][/\ DishesOk(orders')
          /\ (IsOrderWrite(last') /\ BadDishes(last'.body.dishes))
             => (last'.status = 400 /\ orders' = orders)]_vars

\* C6 as amended: the same, but an update addressed to an id that is not in
\* the store ends with 404 (and also leaves the store as it was).
C6_BadDishesRejected ==
    /\ DishesOk(orders)
    /\ [][/\ DishesOk(orders')
          /\ (IsOrderWrite(last') /\ BadDishes(last'.body.dishes))
             => /\ orders' = orders
                /\ last'.status =
                      IF last'.op = "update" /\ Find(orders, last'.id) = 0
                      THEN 404 ELSE 400]_vars

\* An update of an order of the store was refused for the non-integer
\* quantity of its second line.
C6_Witness ==
    /\ Answered("orders", "update")
    /\ Find(orders, last.id) # 0
    /\ last.body = [OrderRef EXCEPT
                       !.dishes = Arr(<<GoodLine, Line(Undef, Half(1))>>)]
    /\ last.status = 400
    /\ last.message =
          "Dish undefined must have a quantity that is an integer greater than 0"

\* A price the specification calls invalid: missing, not an integer, or <= 0.
BadPrice(v) == ~(v.t = "number" /\ v.h = 0 /\ v.n > 0)

PricesOk(store) == \A i \in 1..Len(store) : ~BadPrice(store[i].price)

IsDishWrite(r) == r.res = "dishes" /\ r.op \in {"create", "update"}

\* C7 as stated: every dish of the store has an integer price > 0, and every
\* dish create or update with a bad price ends with 400 and leaves the dish
\* store as it was.
C7_BadPriceAlways400 ==
    /\ PricesOk(dishes)
    /\ [][/\ PricesOk(dishes')
          /\ (IsDishWrite(last') /\ BadPrice(last'.body.price))
             => (last'.status = 400 /\ dishes' = dishes)]_vars

\* C7 as amended: the same, but an update addressed to an id that is not in
\* the store ends with 404 (and also leaves the store as it was).
C7_BadPriceRejected ==
    /\ PricesOk(dishes)
    /\ [][/\ PricesOk(dishes')
          /\ (IsDishWrite(last') /\ BadPrice(last'.body.price))
             => /\ dishes' = dishes
                /\ last'.status =
                      IF last'.op = "update" /\ Find(dishes, last'.id) = 0
                      THEN 404 ELSE 400]_vars

\* An update of a dish of the store was refused for its price of 1.5.
C7_Witness ==
    /\ Answered("dishes", "update")
    /\ Find(dishes, last.id) # 0
    /\ last.body = [DishRef EXCEPT !.price = Half(1)]
    /\ last.status = 400
    /\ last.message = "Dish must have a price that is an integer greater than 0"

\* C8: a create or update whose payload lacks one required property (absent,
\* empty string or falsy), everything else being valid and the addressed
\* record being in the store and changeable, ends with 400 and the message
\* '<Resource> must include a <property>'.
C8_MissingPropertyMessage ==
    [][/\ \A f \in {"name", "description", "price", "image_url"} :
            (/\ IsDishWrite(last')
             /\ last'.op = "update" => Find(dishes, last'.id) # 0
             /\ ~Truthy(last'.body[f])
             /\ \A g \in DishFields \ {f} : last'.body[g] = DishRef[g])
            => (/\ last'.status = 400
                /\ last'.message = "Dish must include a " \o f)
       /\ \A f \in {"deliverTo", "mobileNumber", "dishes", "status"} :
            (/\ IsOrderWrite(last')
             /\ f = "status" => last'.op = "update"
             /\ last'.op = "update"
                => (/\ Find(orders, last'.id) # 0
                    /\ LocalsOrder(last'.id).status # Delivered)
             /\ ~Truthy(last'.body[f])
             /\ \A g \in OrderFields \ {f} : last'.body[g] = OrderRef[g])
            => (/\ last'.status = 400
                /\ last'.message = "Order must include a " \o f)]_vars

\* C9: a request that ends with 400 or 404 leaves both stores as they were.
C9_FailureChangesNothing ==
    [][last'.status \in {400, 404}
       => (dishes' = dishes /\ orders' = orders)]_vars

\* An order update was refused by the last but one check of its chain.
C9_Witness ==
    /\ Answered("orders", "update")
    /\ last.status = 400
    /\ last.message = "Order status invalid"

\* C10: right after a create that succeeded, a read by the id it returned
\* succeeds and finds a record whose fields are the submitted ones.
C10_CreateThenRead ==
    /\ (Answered("dishes", "create") /\ last.status = 201)
       => /\ ReadDish(last.data.id).status = 0
          /\ LocalsDish(last.data.id) =
                [id |-> last.data.id, name |-> last.body.name,
                 description |-> last.body.description,
                 price |-> last.body.price, image_url |-> last.body.image_url]
    /\ (Answered("orders", "create") /\ last.status = 201)
       => /\ ReadOrder(last.data.id).status = 0
          /\ LocalsOrder(last.data.id) =
                [id |-> last.data.id, deliverTo |-> last.body.deliverTo,
                 mobileNumber |-> last.body.mobileNumber,
                 status |-> last.body.status, dishes |-> last.body.dishes]

\* An order was created from a payload that carries a status and a body id.
C10_Witness ==
    /\ Answered("orders", "create")
    /\ last.status = 201
    /\ last.body = [OrderRef EXCEPT !.id = Str("1"), !.status = Str("preparing")]
    /\ last.data.id = "2"

\* C11: the handler at the end of a chain runs at most once per request,
\* each middleware having called next exactly once or ended the chain.
C11_HandlerRunsAtMostOnce == last.runs <= 1

\* The outcome of an order update when the checks are made in the order
\* exists, body id, not delivered, deliverTo, mobileNumber, dishes, status
\* present, status valid, dishes valid, and the first failure is the answer.
FirstFailure(orderId, data) ==
    IF OrderExists(orderId).err THEN OrderExists(orderId)
    ELSE IF MatchIds(orderId, data).err THEN MatchIds(orderId, data)
    ELSE IF OrderDelivered(orderId).err THEN OrderDelivered(orderId)
    ELSE IF OrderBodyDataHas("deliverTo", data).err
         THEN OrderBodyDataHas("deliverTo", data)
    ELSE IF OrderBodyDataHas("mobileNumber", data).err
         THEN OrderBodyDataHas("mobileNumber", data)
    ELSE IF OrderBodyDataHas("dishes", data).err
         THEN OrderBodyDataHas("dishes", data)
    ELSE IF OrderBodyDataHas("status", data).err
         THEN OrderBodyDataHas("status", data)
    ELSE IF StatusInvalid(data).err THEN StatusInvalid(data)
    ELSE DishProperties(data)

\* C12: an order update is answered with the error of the first check that
\* fails, in that order; after a failure the handler does not run and the
\* store is as it was.  An id that is not in the store gives 404 whatever
\* the payload.
C12_FirstFailureAnswers ==
    [][(last'.res = "orders" /\ last'.op = "update")
       => LET first == FirstFailure(last'.id, last'.body)
          IN  /\ Find(orders, last'.id) = 0 => last'.status = 404
              /\ first.err
                 => /\ last'.status = first.status
                    /\ last'.message = first.message
                    /\ last'.runs = 0
                    /\ orders' = orders
              /\ ~first.err => last'.status = 200]_vars

\* A body id that differs from the route was reported for a delivered order.
C12_Witness ==
    /\ Answered("orders", "update")
    /\ Find(orders, last.id) # 0
    /\ LocalsOrder(last.id).status = Delivered
    /\ last.status = 400
    /\ last.message = "Order id does not match route id. Order: 1, Route: 2."

\* The four statuses of the data model.
FourStatuses ==
    {Str("pending"), Str("preparing"), Str("out-for-delivery"), Str("delivered")}

\* A payload that is valid whatever its status: deliverTo and mobileNumber
\* present, dishes valid, and an id that is absent or the route's.
ValidButStatus(orderId, data) ==
    /\ Truthy(data.deliverTo)
    /\ Truthy(data.mobileNumber)
    /\ ~BadDishes(data.dishes)
    /\ (Truthy(data.id) => data.id = Str(orderId))

\* C13: an update of an order that is not delivered (pending, preparing,
\* out-for-delivery, without status or with an unrecognised one) to any of
\* the four statuses, with an otherwise valid payload, succeeds and leaves
\* the order with exactly that status.
C13_FreeTransitions ==
    [][\A i \in 1..Len(orders) :
          (/\ orders[i].status # Delivered
           /\ last'.res = "orders" /\ last'.op = "update"
           /\ last'.id = orders[i].id
           /\ ValidButStatus(last'.id, last'.body)
           /\ last'.body.status \in FourStatuses)
          => /\ last'.status = 200
             /\ Len(orders') = Len(orders)
             /\ orders'[i].status = last'.body.status]_vars

\* A second order, created with any status or none, has been moved to
\* out-for-delivery by an update.
C13_Witness ==
    /\ Answered("orders", "update")
    /\ last.status = 200
    /\ last.id = "2"
    /\ last.body.status = Str("out-for-delivery")
    /\ Find(orders, "2") # 0
    /\ LocalsOrder("2").status = Str("out-for-delivery")

\* The fields update assigns, taken from the payload.
DishMutable(data) ==
    [name |-> data.name, description |-> data.description,
     price |-> data.price, image_url |-> data.image_url]

OrderMutable(data) ==
    [deliverTo |-> data.deliverTo, mobileNumber |-> data.mobileNumber,
     status |-> data.status, dishes |-> data.dishes]

\* C14: a successful update leaves the number and order of the records,
\* every id, every other record and the other store as they were, and gives
\* the addressed record the mutable fields of the payload.
C14_UpdateOverwritesMutableOnly ==
    [][(last'.op = "update" /\ last'.status = 200)
       => /\ last'.res = "dishes"
             => /\ orders' = orders
                /\ Len(dishes') = Len(dishes)
                /\ \A i \in 1..Len(dishes) :
                      /\ dishes'[i].id = dishes[i].id
                      /\ dishes[i].id # last'.id => dishes'[i] = dishes[i]
                      /\ dishes[i].id = last'.id
                         => DishMutable(dishes'[i]) = DishMutable(last'.body)
          /\ last'.res = "orders"
             => /\ dishes' = dishes
                /\ Len(orders') = Len(orders)
                /\ \A i \in 1..Len(orders) :
                      /\ orders'[i].id = orders[i].id
                      /\ orders[i].id # last'.id => orders'[i] = orders[i]
                      /\ orders[i].id = last'.id
                         => OrderMutable(orders'[i]) = OrderMutable(last'.body)
      ]_vars

\* A dish was updated with no id in the payload while another dish and an
\* order were in the stores.
C14_Witness ==
    /\ Answered("dishes", "update")
    /\ last.status = 200
    /\ last.body.id = Undef
    /\ Len(dishes) = 2
    /\ Len(orders) > 0
    /\ LocalsDish(last.id).name = last.body.name

\* C15: every order in the store has one of the four statuses.
C15_StatusAlwaysValid ==
    \A i \in 1..Len(orders) : orders[i].status \in FourStatuses

\* C15, as the code has it: create stores the status of the payload as it
\* is, absent or unrecognised included; an order whose status is not one of
\* the four is either the order a create has just appended, with the status
\* of its payload, or an order that was already in the store with that
\* status, so that no update leaves an order with such a status; the seed
\* order has one of the four.
C15_StatusValidButFromCreate ==
    /\ orders[1].status \in FourStatuses
    /\ [][\A j \in 1..Len(orders') :
             \/ orders'[j].status \in FourStatuses
             \/ \E i \in 1..Len(orders) : orders[i] = orders'[j]
             \/ /\ last'.res = "orders" /\ last'.op = "create"
                /\ last'.status = 201
                /\ j = Len(orders')
                /\ Len(orders') = Len(orders) + 1
                /\ orders'[j].status = last'.body.status]_vars

\* A create without status has put an order without status in the store.
C15_Witness ==
    /\ Answered("orders", "create")
    /\ last.status = 201
    /\ last.body.status = Undef
    /\ orders[Len(orders)].status = Undef

\* C16: a delete of an id that is not in the order store changes nothing
\* and is answered as a success.
C16_AbsentDeleteTolerated ==
    [][(/\ last'.res = "orders" /\ last'.op = "destroy"
        /\ Find(orders, last'.id) = 0)
       => (orders' = orders /\ last'.status = 204)]_vars

\* C16, as the code has it: orderExists heads the delete route, so a delete
\* of an id that is not in the order store changes nothing, does not reach
\* destroy, and is answered 404 "Order id not found".
C16_AbsentDeleteIs404 ==
    [][(/\ last'.res = "orders" /\ last'.op = "destroy"
        /\ Find(orders, last'.id) = 0)
       => /\ orders' = orders
          /\ last'.status = 404
          /\ last'.message = "Order id not found: " \o last'.id
          /\ last'.runs = 0]_vars

\* The order a delete removed has been addressed by a second delete.
C16_Witness ==
    /\ Answered("orders", "destroy")
    /\ gone = last.id
    /\ Find(orders, last.id) = 0
    /\ last.status = 404

\* The ids of the lines of a dishes array.
LineIds(v) == {TemplateStr(v.a[i].id) : i \in 1..Len(v.a)}

\* C17: an order create or update with a valid payload succeeds and stores
\* the lines of the payload whether or not their ids are ids of the dish
\* store; no dish request changes the order store and no order request
\* changes the dish store.
C17_LinesAreCopies ==
    [][/\ last'.res = "dishes" => orders' = orders
       /\ last'.res = "orders" => dishes' = dishes
       /\ (/\ last'.res = "orders" /\ last'.op = "create"
           /\ Truthy(last'.body.deliverTo)
           /\ Truthy(last'.body.mobileNumber)
           /\ ~BadDishes(last'.body.dishes))
          => /\ last'.status = 201
             /\ Len(orders') = Len(orders) + 1
             /\ orders'[Len(orders')].dishes = last'.body.dishes
       /\ \A i \in 1..Len(orders) :
             (/\ last'.res = "orders" /\ last'.op = "update"
              /\ last'.id = orders[i].id
              /\ orders[i].status # Delivered
              /\ ValidButStatus(last'.id, last'.body)
              /\ last'.body.status \in FourStatuses)
             => /\ last'.status = 200
                /\ orders'[i].dishes = last'.body.dishes]_vars

\* An order was created with a line whose id is the id of no dish, and a
\* stored order has a line whose id is the id of a dish.
C17_Witness ==
    /\ Answered("orders", "create")
    /\ last.status = 201
    /\ LineIds(last.body.dishes) \cap Ids(dishes) = {}
    /\ orders[Len(orders)].dishes = last.body.dishes
    /\ \E i \in 1..Len(orders) : LineIds(orders[i].dishes) \cap Ids(dishes) # {}

====
